---- MODULE Spec2Model ----
(***************************************************************************)
(* Model of src/app.py: the Solana LP burn monitor                         *)
(* (class SolanaLPBurnMonitor).  One logical task runs start() and then    *)
(* monitor_loop(); every network call is an input drawn from a bounded set *)
(* of answers the collaborator can give.                                   *)
(*                                                                         *)
(* Specifications:                                                         *)
(*   Spec            start() and monitor_loop(); the listing fails with    *)
(*                   every message, a few identifiers and transactions     *)
(*   SpecLedger      start() and monitor_loop(); the listing never fails   *)
(*                   and returns every list of identifiers                 *)
(*   SpecFate        the same with the history of one identifier recorded, *)
(*                   the listing failing with a message of no class        *)
(*   SpecLive        start() and monitor_loop() under weak fairness        *)
(*   SpecStartup     start() and monitor_loop() in a process that can be   *)
(*                   interrupted                                           *)
(*   SpecClassifier  check_transaction called on every answer              *)
(*   SpecCache       get_token_info called on every key and answer         *)
(*   SpecRotate      rotate_rpc called from every endpoint                 *)
(*                                                                         *)
(* Left out: log output, the timestamp of a burn record, the text of the   *)
(* messages sent, the Flask status page (it shares no state with the bot). *)
(* Event identifiers are numbers, addresses and URLs the source's strings. *)
(***************************************************************************)
EXTENDS Integers, Sequences, FiniteSets, TLC

\* ------------------------------------------------------------ configuration

RAYDIUM_AMM_PROGRAM == "675kPX9MHTjS2zt1qfr1NYHuzeLXfQM9H24wFSUt1Mp8"
RAYDIUM_AUTHORITY == "5Q544fKrFoe6tsEbD7S8EmxGTJYAKtTVhAW5Q5pge4j1"

BURN_ADDRESSES ==
    << "1111111111111111111111111111111111111111111",
       "11111111111111111111111111111111",
       "So11111111111111111111111111111111111111112",
       "burnSoL11111111111111111111111111111111111",
       "DeadSo11111111111111111111111111111111111" >>

RPC_URLS ==
    << "https://api.mainnet-beta.solana.com",
       "https://solana-mainnet.g.alchemy.com/v2/demo",
       "https://rpc.helius.xyz/",
       "https://mainnet.solana.rpcpool.com",
       "https://solana-mainnet.rpc.extrnode.com" >>

MIN_BURN_PERCENT == 90
CHECK_INTERVAL == 30

\* error_count > MaxErrors escalates (app.py:349)
MaxErrors == 10
EscalationWait == 60
RateLimitWait == 30
ForbiddenWait == 5
UnavailableWait == 10
ConnectionWait == 10

\* ------------------------------------------------------------------ bounds
\* The ledger's limits are 10000 / 5000 and the fetch limit 5 in the source
\* (app.py:320, app.py:321, app.py:302); the model keeps their roles and
\* their order (keep < cap) at sizes TLC can enumerate.
LedgerCap == 2
LedgerKeep == 1
FetchLimit == 2
\* event identifiers the data source can return
NumSigs == 4
\* longest participant list of a transaction
MaxAccounts == 3
\* most marker substrings one exception message contains
MaxMarkers == 2
\* failing cycles in a row the history counts before it stops counting
MaxStreak == 23

Sigs == 1..NumSigs

\* ----------------------------------------------------------------- helpers

Range(s) == {s[i] : i \in DOMAIN s}

\* Python: x in list
Contains(s, x) == \E i \in DOMAIN s : s[i] = x

\* sequences over S of length at most n
SeqsUpTo(S, n) == UNION {[1..k -> S] : k \in 0..n}

Injective(s) == \A i, j \in DOMAIN s : s[i] = s[j] => i = j

\* Python: list[-n:] for n > 0
LastN(s, n) ==
    IF Len(s) <= n THEN s ELSE SubSeq(s, Len(s) - n + 1, Len(s))

\* Python: list(a_set) -- the iteration order of a set of strings follows the
\* (per-process randomised) string hash, so every order is a possible one.
ListsOf(S) == {s \in [1..Cardinality(S) -> S] : Injective(s)}

\* Python: dict.get(key, default)
Get(d, k, default) == IF k \in DOMAIN d THEN d[k] ELSE default

\* ------------------------------------------------- inputs of the environment

\* what str(e) of a cycle-level exception contains: the marker substrings the
\* handler looks for (app.py:333-345); a message with none of them is "other"
Markers ==
    {"429", "Too Many Requests", "403", "Forbidden",
     "503", "Service Unavailable", "Connection", "Timeout"}

ErrorMessages == {m \in SUBSET Markers : Cardinality(m) <= MaxMarkers}

\* addresses a transaction's account keys are drawn from, each as the
\* base58 string str(key) gives for it
AddrUniverse ==
    {RAYDIUM_AMM_PROGRAM, RAYDIUM_AUTHORITY, BURN_ADDRESSES[2], "TokenX"}

AccountLists == SeqsUpTo(AddrUniverse, MaxAccounts)

\* answers of get_transaction (app.py:211-235): an exception (raised by
\* Signature.from_string, by the call or while the answer is taken apart), no
\* value, a value without a transaction body, or a message carrying its keys
\* under account_keys, under static_account_keys, or under neither name
TxResponses ==
    {[kind |-> k, keys |-> << >>] :
        k \in {"raise", "none", "no_transaction", "neither"}}
    \cup {[kind |-> k, keys |-> a] :
            k \in {"account_keys", "static_account_keys"}, a \in AccountLists}

\* JSON bodies of the metadata service: any of the three fields may be missing
EmptyData == [k \in {} |-> ""]
FullData == [k \in {"symbol", "name", "decimals"} |->
                CASE k = "symbol" -> "TKX" [] k = "name" -> "TokenX" [] OTHER -> 6]
OtherData == [k \in {"symbol"} |-> "TKY"]
MetaData == {EmptyData, FullData, OtherData}

\* answers of session.get(url, timeout=5) (app.py:178-180)
MetaResponses ==
    {[kind |-> k, data |-> EmptyData] : k \in {"raise", "status404", "bad_json"}}
    \cup {[kind |-> "status200", data |-> d] : d \in MetaData}

\* answers of get_signatures_for_address(limit=5): distinct identifiers,
\* at most FetchLimit of them (an empty list stands for a falsy response too)
CandidateLists == {s \in SeqsUpTo(Sigs, FetchLimit) : Injective(s)}

\* ------------------------------------------------------------ pure methods

Fallback == [symbol |-> "???", name |-> "Unknown", decimals |-> 9]

\* a lookup that stores the fallback it returns after a failure
get_token_info_caching_failures(cache, mint_address, resp) ==
    IF mint_address \in DOMAIN cache
    THEN [info |-> cache[mint_address], cache |-> cache, lookup |-> FALSE]
    ELSE LET info ==
                IF resp.kind = "status200"
                THEN [symbol |-> Get(resp.data, "symbol", "???"),
                      name |-> Get(resp.data, "name", "Unknown"),
                      decimals |-> Get(resp.data, "decimals", 9)]
                ELSE Fallback
         IN [info |-> info,
             cache |-> [k \in DOMAIN cache \cup {mint_address} |->
                           IF k = mint_address THEN info ELSE cache[k]],
             lookup |-> TRUE]

\* get_token_info on an open session: the returned info, token_cache
\* afterwards, and whether session.get was called
get_token_info(cache, mint_address, resp) ==
    IF mint_address \in DOMAIN cache
    THEN [info |-> cache[mint_address], cache |-> cache, lookup |-> FALSE]
    ELSE IF resp.kind = "status200"
         THEN LET info == [symbol |-> Get(resp.data, "symbol", "???"),
                           name |-> Get(resp.data, "name", "Unknown"),
                           decimals |-> Get(resp.data, "decimals", 9)]
              IN [info |-> info,
                  cache |-> [k \in DOMAIN cache \cup {mint_address} |->
                                IF k = mint_address THEN info ELSE cache[k]],
                  lookup |-> TRUE]
         ELSE [info |-> Fallback, cache |-> cache, lookup |-> TRUE]

\* a rotation that gives up when the old client does not close
rotate_rpc_unless_close_fails(index, close_ok) ==
    IF close_ok THEN (index + 1) % Len(RPC_URLS) ELSE index

\* the index rotate_rpc moves to; closing the old client may fail (close_ok
\* FALSE), which the bare except swallows
rotate_rpc(index, close_ok) == (index + 1) % Len(RPC_URLS)

\* AsyncClient(url)
AsyncClient(url) == [url |-> url, closed |-> FALSE]

\* a classifier that takes the last account key for the token
check_transaction_last_account(signature, tx) ==
    IF tx.kind \in {"raise", "none", "no_transaction"}
    THEN {}
    ELSE LET accounts ==
                IF tx.kind \in {"account_keys", "static_account_keys"}
                THEN tx.keys ELSE << >>
             has_burn ==
                \E b \in DOMAIN BURN_ADDRESSES : Contains(accounts, BURN_ADDRESSES[b])
             has_raydium ==
                Contains(accounts, RAYDIUM_AMM_PROGRAM)
                \/ Contains(accounts, RAYDIUM_AUTHORITY)
         IN IF has_burn /\ has_raydium
            THEN {[signature |-> signature,
                   token_address |->
                       IF accounts # << >> THEN accounts[Len(accounts)]
                       ELSE "unknown",
                   burn_percent |-> MIN_BURN_PERCENT]}
            ELSE {}

\* a classifier that forgot the authority address
check_transaction_program_only(signature, tx) ==
    IF tx.kind \in {"raise", "none", "no_transaction"}
    THEN {}
    ELSE LET accounts ==
                IF tx.kind \in {"account_keys", "static_account_keys"}
                THEN tx.keys ELSE << >>
             has_burn ==
                \E b \in DOMAIN BURN_ADDRESSES : Contains(accounts, BURN_ADDRESSES[b])
             has_raydium == Contains(accounts, RAYDIUM_AMM_PROGRAM)
         IN IF has_burn /\ has_raydium
            THEN {[signature |-> signature,
                   token_address |->
                       IF accounts # << >> THEN accounts[1] ELSE "unknown",
                   burn_percent |-> MIN_BURN_PERCENT]}
            ELSE {}

\* check_transaction: the empty set is None, else the one burn record
check_transaction(signature, tx) ==
    IF tx.kind \in {"raise", "none", "no_transaction"}
    THEN {}
    ELSE LET accounts ==
                IF tx.kind \in {"account_keys", "static_account_keys"}
                THEN tx.keys ELSE << >>
             has_burn ==
                \E b \in DOMAIN BURN_ADDRESSES : Contains(accounts, BURN_ADDRESSES[b])
             has_raydium ==
                Contains(accounts, RAYDIUM_AMM_PROGRAM)
                \/ Contains(accounts, RAYDIUM_AUTHORITY)
         IN IF has_burn /\ has_raydium
            THEN {[signature |-> signature,
                   token_address |->
                       IF accounts # << >> THEN accounts[1] ELSE "unknown",
                   burn_percent |-> MIN_BURN_PERCENT]}
            ELSE {}

\* a chain that tests the forbidden markers before the rate-limit markers
ErrorClassForbiddenFirst(error_msg) ==
    IF "403" \in error_msg \/ "Forbidden" \in error_msg THEN "forbidden"
    ELSE IF "429" \in error_msg \/ "Too Many Requests" \in error_msg THEN "rate_limited"
    ELSE IF "503" \in error_msg \/ "Service Unavailable" \in error_msg THEN "unavailable"
    ELSE IF "Connection" \in error_msg \/ "Timeout" \in error_msg THEN "connection"
    ELSE "other"

\* the except branch chosen for a message (app.py:333-347)
ErrorClass(error_msg) ==
    IF "429" \in error_msg \/ "Too Many Requests" \in error_msg THEN "rate_limited"
    ELSE IF "403" \in error_msg \/ "Forbidden" \in error_msg THEN "forbidden"
    ELSE IF "503" \in error_msg \/ "Service Unavailable" \in error_msg THEN "unavailable"
    ELSE IF "Connection" \in error_msg \/ "Timeout" \in error_msg THEN "connection"
    ELSE "other"

\* does the branch rotate, and how long does it sleep (0: no sleep)
Recovery(error_msg) ==
    CASE ErrorClass(error_msg) = "rate_limited" -> [rotate |-> TRUE, wait |-> RateLimitWait]
      [] ErrorClass(error_msg) = "forbidden" -> [rotate |-> TRUE, wait |-> ForbiddenWait]
      [] ErrorClass(error_msg) = "unavailable" -> [rotate |-> TRUE, wait |-> UnavailableWait]
      [] ErrorClass(error_msg) = "connection" -> [rotate |-> FALSE, wait |-> ConnectionWait]
      [] OTHER -> [rotate |-> FALSE, wait |-> 0]

\* narrower environments, for the specifications that explore another part of
\* the program in depth
FewCandidates == {s \in CandidateLists : Range(s) \subseteq {1, 2, 3} /\ Len(s) <= 2}

\* transactions that are never burns
PlainTx ==
    {[kind |-> "none", keys |-> << >>],
     [kind |-> "account_keys", keys |-> << RAYDIUM_AMM_PROGRAM, "TokenX" >>]}

FewTx ==
    {[kind |-> "raise", keys |-> << >>],
     [kind |-> "none", keys |-> << >>],
     [kind |-> "account_keys",
      keys |-> << "TokenX", BURN_ADDRESSES[2], RAYDIUM_AMM_PROGRAM >>],
     [kind |-> "account_keys", keys |-> << RAYDIUM_AMM_PROGRAM, "TokenX" >>]}

FewMeta ==
    {[kind |-> "raise", data |-> EmptyData],
     [kind |-> "status200", data |-> FullData]}

\* -------------------------------------------------------------------- state

VARIABLES
    pc,                    \* where the task is in start() / monitor_loop()
    rpc_index,             \* self.rpc_index
    solana_client,         \* self.solana_client
    processed_signatures,  \* self.processed_signatures (a Python set)
    token_cache,           \* self.token_cache
    session,               \* self.session: "none", "open" or "closed"
    error_count,           \* monitor_loop's local error_count
    signatures,            \* signatures.value of the current cycle
    idx,                   \* position of the for loop in signatures (1-based)
    error_msg,             \* str(e) of the exception the current cycle caught
    \* history (not program state), kept per cycle and cleared by its last step
    insertion_order,       \* the ledger's members, oldest insertion first
    ledger_at_fetch,       \* processed_signatures when the fetch returned
    classified,            \* the check_transaction calls, in order: the identifier,
                           \* the result, and whether an exception was swallowed
    notified,              \* burn records passed to send_notification, in order
    sent,                  \* identifiers whose send_message call succeeded
    rotations,             \* rotate_rpc calls made by the except block
    waits,                 \* asyncio.sleep durations of the except block, in order
    escalated,             \* did the except block run its error_count > 10 branch
    failed,                \* did the cycle enter the except block
    streak,                \* failing cycles in a row so far (saturates at MaxStreak)
    last_call,             \* a direct method call: its arguments and its result
    fate,                  \* for each identifier the run watches: what became of it
                           \* when the loop last took it up
    startup,               \* outcomes of start()'s probes and of its announcement,
                           \* and why start() left its try block; kept until the
                           \* first cycle ends
    slept                  \* asyncio.sleep(CHECK_INTERVAL) durations since the
                           \* last fetch

vars ==
    << pc, rpc_index, solana_client, processed_signatures, token_cache, session,
       error_count, signatures, idx, error_msg, insertion_order, ledger_at_fetch,
       classified, notified, sent, rotations, waits, escalated, failed, streak,
       last_call, fate, startup, slept >>

program_vars ==
    << rpc_index, solana_client, processed_signatures, token_cache, session,
       error_count >>

cycle_history ==
    << signatures, idx, error_msg, ledger_at_fetch, classified, notified, sent,
       rotations, waits, escalated, failed >>

NoMessage == {"-"}
NoCall == [op |-> "none"]
NoStartup == [me |-> "-", slot |-> "-", retry |-> "-", announce |-> "-", exit |-> "-"]
\* a run that watches no identifier
NoFate == [s \in {} |-> "never"]

ClearCycle ==
    /\ signatures' = << >>
    /\ idx' = 1
    /\ error_msg' = NoMessage
    /\ ledger_at_fetch' = {}
    /\ classified' = << >>
    /\ notified' = << >>
    /\ sent' = << >>
    /\ rotations' = 0
    /\ waits' = << >>
    /\ escalated' = FALSE
    /\ failed' = FALSE
    /\ startup' = NoStartup

\* __init__
Init ==
    /\ pc = "start"
    /\ rpc_index = 0
    /\ solana_client = AsyncClient(RPC_URLS[1])
    /\ processed_signatures = {}
    /\ token_cache = [k \in {} |-> Fallback]
    /\ session = "none"
    /\ error_count = 0
    /\ signatures = << >>
    /\ idx = 1
    /\ error_msg = NoMessage
    /\ insertion_order = << >>
    /\ ledger_at_fetch = {}
    /\ classified = << >>
    /\ notified = << >>
    /\ sent = << >>
    /\ rotations = 0
    /\ waits = << >>
    /\ escalated = FALSE
    /\ failed = FALSE
    /\ streak = 0
    /\ last_call = NoCall
    /\ fate = NoFate
    /\ startup = NoStartup
    /\ slept = << >>

\* a rotation that skips an endpoint
RotateSkipping(close_ok) ==
    /\ rpc_index' = rotate_rpc(rotate_rpc(rpc_index, close_ok), close_ok)
    /\ solana_client' =
           AsyncClient(RPC_URLS[rotate_rpc(rotate_rpc(rpc_index, close_ok), close_ok) + 1])

\* a rotation that moves the index and keeps the old client
RotateIndexOnly(close_ok) ==
    /\ rpc_index' = rotate_rpc(rpc_index, close_ok)
    /\ solana_client' = solana_client

\* rotate_rpc as a step on the endpoint state
Rotate(close_ok) ==
    /\ rpc_index' = rotate_rpc(rpc_index, close_ok)
    /\ solana_client' = AsyncClient(RPC_URLS[rotate_rpc(rpc_index, close_ok) + 1])

\* ------------------------------------------------------------------ start()

\* setup(), then the get_me probe: a failure is the "Fatal error" path
Start ==
    /\ pc = "start"
    /\ session' = "open"
    /\ \E me_ok \in BOOLEAN :
         /\ pc' = IF me_ok THEN "probe_rpc" ELSE "finally"
         /\ startup' = IF me_ok THEN [startup EXCEPT !.me = "ok"]
                        ELSE [startup EXCEPT !.me = "failed", !.exit = "fatal"]
    /\ UNCHANGED << rpc_index, solana_client, processed_signatures, token_cache,
                    error_count, insertion_order, streak, last_call, fate, slept >>
    /\ UNCHANGED cycle_history

\* a probe whose second failure is fatal
ProbeRpcFatal ==
    /\ pc = "probe_rpc"
    /\ \E slot_ok \in BOOLEAN :
         IF slot_ok
         THEN /\ UNCHANGED << rpc_index, solana_client >>
              /\ startup' = [startup EXCEPT !.slot = "ok"]
              /\ pc' = "announce"
         ELSE \E close_ok, second_ok \in BOOLEAN :
                /\ Rotate(close_ok)
                /\ startup' = [startup EXCEPT
                                  !.slot = "failed",
                                  !.retry = IF second_ok THEN "ok" ELSE "failed"]
                /\ pc' = IF second_ok THEN "announce" ELSE "finally"
    /\ UNCHANGED << processed_signatures, token_cache, session, error_count,
                    insertion_order, streak, last_call, fate, slept >>
    /\ UNCHANGED cycle_history

\* get_slot; on failure rotate and try once more, continuing either way
ProbeRpc ==
    /\ pc = "probe_rpc"
    /\ \E slot_ok \in BOOLEAN :
         IF slot_ok
         THEN /\ UNCHANGED << rpc_index, solana_client >>
              /\ startup' = [startup EXCEPT !.slot = "ok"]
         ELSE \E close_ok, second_ok \in BOOLEAN :
                /\ Rotate(close_ok)
                /\ startup' = [startup EXCEPT
                                  !.slot = "failed",
                                  !.retry = IF second_ok THEN "ok" ELSE "failed"]
    /\ pc' = "announce"
    /\ UNCHANGED << processed_signatures, token_cache, session, error_count,
                    insertion_order, streak, last_call, fate, slept >>
    /\ UNCHANGED cycle_history

\* the startup message, best effort; then monitor_loop() begins
Announce ==
    /\ pc = "announce"
    /\ \E send_ok \in BOOLEAN :
         startup' = [startup EXCEPT !.announce = IF send_ok THEN "ok" ELSE "failed"]
    /\ pc' = "fetch"
    /\ UNCHANGED program_vars
    /\ UNCHANGED << insertion_order, streak, last_call, fate, slept >>
    /\ UNCHANGED cycle_history

\* finally: cleanup()
Finally ==
    /\ pc = "finally"
    /\ session' = IF session = "open" THEN "closed" ELSE session
    /\ solana_client' = [solana_client EXCEPT !.closed = TRUE]
    /\ pc' = "stopped"
    /\ UNCHANGED << rpc_index, processed_signatures, token_cache,
                    error_count, insertion_order, streak, last_call, fate,
                    startup, slept >>
    /\ UNCHANGED cycle_history

\* KeyboardInterrupt, or the cancellation asyncio.run delivers for it, raised
\* at an await of the try block: start() goes to its finally (app.py:397-402)
Interrupt ==
    /\ pc \in {"probe_rpc", "announce", "fetch", "loop", "recover",
               "check_errors", "sleep"}
    /\ pc' = "finally"
    /\ startup' = [startup EXCEPT !.exit = "interrupt"]
    /\ UNCHANGED program_vars
    /\ UNCHANGED << insertion_order, streak, last_call, fate, slept >>
    /\ UNCHANGED << signatures, idx, error_msg, ledger_at_fetch, classified,
                    notified, sent, rotations, waits, escalated, failed >>

\* ----------------------------------------------------------- monitor_loop()

\* get_signatures_for_address returns one of `values`: the for loop starts
FetchReturns(values) ==
    /\ pc = "fetch"
    /\ \E value \in values : signatures' = value
    /\ idx' = 1
    /\ ledger_at_fetch' = processed_signatures
    /\ pc' = "loop"
    /\ slept' = << >>
    /\ UNCHANGED program_vars
    /\ UNCHANGED << insertion_order, error_msg, classified, notified, sent,
                    rotations, waits, escalated, failed, streak, last_call,
                    fate, startup >>

\* a notification that tries send_message a second time when it failed
SendNotificationRetrying(burn_data, meta, send_ok) ==
    /\ notified' = IF send_ok THEN Append(notified, burn_data)
                    ELSE Append(Append(notified, burn_data), burn_data)
    /\ token_cache' = get_token_info(token_cache, burn_data.token_address, meta).cache
    /\ sent' = IF send_ok THEN Append(sent, burn_data.signature) ELSE sent

\* send_notification: the metadata lookup, then one send_message call; every
\* exception ends in its own except branch
SendNotification(burn_data, meta, send_ok) ==
    /\ notified' = Append(notified, burn_data)
    /\ token_cache' = get_token_info(token_cache, burn_data.token_address, meta).cache
    /\ sent' = IF send_ok THEN Append(sent, burn_data.signature) ELSE sent

\* the history of a watched identifier the loop took up: "missed" (the
\* transaction could not be fetched or was not yet available), "not_a_burn",
\* "alert_failed" (send_message raised) or "alerted"
Watch(sig, outcome) ==
    IF sig \in DOMAIN fate THEN [fate EXCEPT ![sig] = outcome] ELSE fate

\* a loop that forgot the ledger test
UnseenAlways(sig) == TRUE

\* a loop that takes a missed identifier up again
UnseenOrMissed(sig) ==
    \/ sig \notin processed_signatures
    \/ sig \in DOMAIN fate /\ fate[sig] = "missed"

\* if sig not in self.processed_signatures
Unseen(sig) == sig \notin processed_signatures

\* one iteration of the for loop (app.py:307-317); get_transaction answers
\* with one of `txs`, the metadata service with one of `metas`
ProcessCandidate(txs, metas) ==
    /\ pc = "loop"
    /\ idx <= Len(signatures)
    /\ LET sig == signatures[idx] IN
         IF Unseen(sig)
         THEN /\ processed_signatures' = processed_signatures \cup {sig}
              /\ insertion_order' = Append(insertion_order, sig)
              /\ \E tx \in txs :
                   LET burn_data == check_transaction(sig, tx) IN
                     /\ classified' =
                            Append(classified,
                                   [signature |-> sig, result |-> burn_data,
                                    raised |-> tx.kind = "raise"])
                     /\ IF burn_data # {}
                        THEN \E meta \in metas, send_ok \in BOOLEAN :
                               /\ SendNotification(CHOOSE b \in burn_data : TRUE,
                                                   meta, send_ok)
                               /\ fate' = Watch(sig, IF send_ok THEN "alerted"
                                                     ELSE "alert_failed")
                        ELSE /\ UNCHANGED << notified, token_cache, sent >>
                             /\ fate' = Watch(sig, IF tx.kind \in {"raise", "none"}
                                                   THEN "missed"
                                                   ELSE "not_a_burn")
         ELSE UNCHANGED << processed_signatures, insertion_order, classified,
                           notified, token_cache, sent, fate >>
    /\ idx' = idx + 1
    /\ UNCHANGED << pc, rpc_index, solana_client, session, error_count,
                    signatures, error_msg, ledger_at_fetch, rotations, waits,
                    escalated, failed, streak, last_call, startup, slept >>

\* a clean-up whose threshold is one too high
CleanUpLate ==
    IF Cardinality(processed_signatures) > LedgerCap + 1
    THEN \E as_list \in ListsOf(processed_signatures) :
           LET keep == LastN(as_list, LedgerKeep) IN
             /\ processed_signatures' = Range(keep)
             /\ insertion_order' =
                    SelectSeq(insertion_order, LAMBDA s : s \in Range(keep))
             /\ fate' = [s \in DOMAIN fate |->
                            IF s \in processed_signatures \ Range(keep)
                            THEN "evicted" ELSE fate[s]]
    ELSE UNCHANGED << processed_signatures, insertion_order, fate >>

\* the ledger clean-up (app.py:320-322): list(set)[-5000:] of a set that has
\* no order of its own
CleanUp ==
    IF Cardinality(processed_signatures) > LedgerCap
    THEN \E as_list \in ListsOf(processed_signatures) :
           LET keep == LastN(as_list, LedgerKeep) IN
             /\ processed_signatures' = Range(keep)
             /\ insertion_order' =
                    SelectSeq(insertion_order, LAMBDA s : s \in Range(keep))
             /\ fate' = [s \in DOMAIN fate |->
                            IF s \in processed_signatures \ Range(keep)
                            THEN "evicted" ELSE fate[s]]
    ELSE UNCHANGED << processed_signatures, insertion_order, fate >>

\* a try block that resets error_count only inside "if signatures"
EndOfTryResetsWhenBusy ==
    /\ pc = "loop"
    /\ idx > Len(signatures)
    /\ CleanUp
    /\ error_count' = IF signatures = << >> THEN error_count ELSE 0
    /\ streak' = 0
    /\ pc' = "sleep"
    /\ UNCHANGED << rpc_index, solana_client, token_cache, session, last_call,
                    startup, slept >>
    /\ UNCHANGED cycle_history

\* a try block that forgot error_count = 0
EndOfTryKeepsCount ==
    /\ pc = "loop"
    /\ idx > Len(signatures)
    /\ CleanUp
    /\ streak' = 0
    /\ pc' = "sleep"
    /\ UNCHANGED << rpc_index, solana_client, token_cache, session, error_count,
                    last_call, startup, slept >>
    /\ UNCHANGED cycle_history

\* the rest of the try block after the loop: clean-up, error_count = 0
EndOfTry ==
    /\ pc = "loop"
    /\ idx > Len(signatures)
    /\ CleanUp
    /\ error_count' = 0
    /\ streak' = 0
    /\ pc' = "sleep"
    /\ UNCHANGED << rpc_index, solana_client, token_cache, session, last_call,
                    startup, slept >>
    /\ UNCHANGED cycle_history

\* get_signatures_for_address raises with one of the messages `msgs`: the
\* except block is entered and counts the error (app.py:326-331)
FetchRaises(msgs) ==
    /\ pc = "fetch"
    /\ \E m \in msgs : error_msg' = m
    /\ failed' = TRUE
    /\ error_count' = error_count + 1
    /\ streak' = IF streak < MaxStreak THEN streak + 1 ELSE streak
    /\ pc' = "recover"
    /\ slept' = << >>
    /\ UNCHANGED << rpc_index, solana_client, processed_signatures, token_cache,
                    session, insertion_order, signatures, idx, ledger_at_fetch,
                    classified, notified, sent, rotations, waits, escalated,
                    last_call, fate, startup >>

\* a handler whose escalation replaces the per-class branch
RecoverUnlessEscalating ==
    /\ pc = "recover"
    /\ IF Recovery(error_msg).rotate /\ error_count <= MaxErrors
       THEN /\ \E close_ok \in BOOLEAN : Rotate(close_ok)
            /\ rotations' = rotations + 1
       ELSE UNCHANGED << rpc_index, solana_client, rotations >>
    /\ waits' = IF Recovery(error_msg).wait > 0 /\ error_count <= MaxErrors
                THEN Append(waits, Recovery(error_msg).wait) ELSE waits
    /\ pc' = "check_errors"
    /\ UNCHANGED << processed_signatures, token_cache, session, error_count,
                    insertion_order, signatures, idx, error_msg, ledger_at_fetch,
                    classified, notified, sent, escalated, failed, streak,
                    last_call, fate, startup, slept >>

\* the if / elif chain on the message (app.py:333-347)
Recover ==
    /\ pc = "recover"
    /\ IF Recovery(error_msg).rotate
       THEN /\ \E close_ok \in BOOLEAN : Rotate(close_ok)
            /\ rotations' = rotations + 1
       ELSE UNCHANGED << rpc_index, solana_client, rotations >>
    /\ waits' = IF Recovery(error_msg).wait > 0
                THEN Append(waits, Recovery(error_msg).wait) ELSE waits
    /\ pc' = "check_errors"
    /\ UNCHANGED << processed_signatures, token_cache, session, error_count,
                    insertion_order, signatures, idx, error_msg, ledger_at_fetch,
                    classified, notified, sent, escalated, failed, streak,
                    last_call, fate, startup, slept >>

\* a handler that escalates one failure early
TooManyErrorsEarly == error_count >= MaxErrors

\* if error_count > 10
TooManyErrors == error_count > MaxErrors

\* an escalation that gives the loop up
CheckErrorsStopping ==
    /\ pc = "check_errors"
    /\ IF TooManyErrors
       THEN /\ \E close_ok \in BOOLEAN : Rotate(close_ok)
            /\ rotations' = rotations + 1
            /\ waits' = Append(waits, EscalationWait)
            /\ error_count' = 0
            /\ escalated' = TRUE
            /\ pc' = "stopped"
       ELSE /\ UNCHANGED << rpc_index, solana_client, rotations, waits,
                            error_count, escalated >>
            /\ pc' = "sleep"
    /\ UNCHANGED << processed_signatures, token_cache, session, insertion_order,
                    signatures, idx, error_msg, ledger_at_fetch, classified,
                    notified, sent, failed, streak, last_call, fate, startup,
                    slept >>

\* an escalation that forgot error_count = 0
CheckErrorsKeepsCount ==
    /\ pc = "check_errors"
    /\ IF TooManyErrors
       THEN /\ \E close_ok \in BOOLEAN : Rotate(close_ok)
            /\ rotations' = rotations + 1
            /\ waits' = Append(waits, EscalationWait)
            /\ escalated' = TRUE
       ELSE UNCHANGED << rpc_index, solana_client, rotations, waits, escalated >>
    /\ pc' = "sleep"
    /\ UNCHANGED << processed_signatures, token_cache, session, insertion_order,
                    signatures, idx, error_msg, ledger_at_fetch, classified,
                    notified, sent, failed, streak, last_call, fate, startup,
                    slept, error_count >>

\* the last if of the except block (app.py:349-353)
CheckErrors ==
    /\ pc = "check_errors"
    /\ IF TooManyErrors
       THEN /\ \E close_ok \in BOOLEAN : Rotate(close_ok)
            /\ rotations' = rotations + 1
            /\ waits' = Append(waits, EscalationWait)
            /\ error_count' = 0
            /\ escalated' = TRUE
       ELSE UNCHANGED << rpc_index, solana_client, rotations, waits, error_count,
                         escalated >>
    /\ pc' = "sleep"
    /\ UNCHANGED << processed_signatures, token_cache, session, insertion_order,
                    signatures, idx, error_msg, ledger_at_fetch, classified,
                    notified, sent, failed, streak, last_call, fate, startup,
                    slept >>

\* a loop whose base sleep is skipped after the 60 s cooldown
SleepUnlessEscalated ==
    /\ pc = "sleep"
    /\ pc' = "fetch"
    /\ slept' = IF escalated THEN slept ELSE Append(slept, CHECK_INTERVAL)
    /\ ClearCycle
    /\ UNCHANGED program_vars
    /\ UNCHANGED << insertion_order, streak, last_call, fate >>

\* asyncio.sleep(CHECK_INTERVAL), then the next iteration of while True
Sleep ==
    /\ pc = "sleep"
    /\ pc' = "fetch"
    /\ slept' = Append(slept, CHECK_INTERVAL)
    /\ ClearCycle
    /\ UNCHANGED program_vars
    /\ UNCHANGED << insertion_order, streak, last_call, fate >>

\* ----------------------------------------------------------- specifications

\* the whole program against a data source that fails with every message
Next ==
    \/ Start
    \/ ProbeRpc
    \/ Announce
    \/ Finally
    \/ FetchReturns(FewCandidates)
    \/ ProcessCandidate(FewTx, FewMeta)
    \/ EndOfTry
    \/ FetchRaises(ErrorMessages)
    \/ Recover
    \/ CheckErrors
    \/ Sleep

Spec == Init /\ [][Next]_vars

\* the whole program against a data source whose listing never fails and
\* returns every list of identifiers, none of them a burn
NextLedger ==
    \/ Start
    \/ ProbeRpc
    \/ Announce
    \/ Finally
    \/ FetchReturns(CandidateLists)
    \/ ProcessCandidate(PlainTx, FewMeta)
    \/ EndOfTry
    \/ Sleep

SpecLedger == Init /\ [][NextLedger]_vars

\* one message of each class of the except block
OnePerClass == {{}, {"429"}, {"403"}, {"503"}, {"Timeout"}}

\* a message of no class: the except block only counts it
Unclassified == {{}}

\* the identifiers whose history a run of SpecFate records
Watched == {1}

\* __init__, in a run that records what becomes of the watched identifiers
InitFate ==
    /\ pc = "start"
    /\ rpc_index = 0
    /\ solana_client = AsyncClient(RPC_URLS[1])
    /\ processed_signatures = {}
    /\ token_cache = [k \in {} |-> Fallback]
    /\ session = "none"
    /\ error_count = 0
    /\ signatures = << >>
    /\ idx = 1
    /\ error_msg = NoMessage
    /\ insertion_order = << >>
    /\ ledger_at_fetch = {}
    /\ classified = << >>
    /\ notified = << >>
    /\ sent = << >>
    /\ rotations = 0
    /\ waits = << >>
    /\ escalated = FALSE
    /\ failed = FALSE
    /\ streak = 0
    /\ last_call = NoCall
    /\ fate = [s \in Watched |-> "never"]
    /\ startup = NoStartup
    /\ slept = << >>

\* the whole program, the listing failing only with a message of no class
NextFate ==
    \/ Start
    \/ ProbeRpc
    \/ Announce
    \/ Finally
    \/ FetchReturns(FewCandidates)
    \/ ProcessCandidate(FewTx, FewMeta)
    \/ EndOfTry
    \/ FetchRaises(Unclassified)
    \/ Recover
    \/ CheckErrors
    \/ Sleep

SpecFate == InitFate /\ [][NextFate]_vars

\* a data source that knows one identifier
OneCandidate == {s \in CandidateLists : Range(s) \subseteq {1}}

\* the whole program, the listing failing with one message of each class
NextLive ==
    \/ Start
    \/ ProbeRpc
    \/ Announce
    \/ Finally
    \/ FetchReturns(OneCandidate)
    \/ ProcessCandidate(FewTx, FewMeta)
    \/ EndOfTry
    \/ FetchRaises(OnePerClass)
    \/ Recover
    \/ CheckErrors
    \/ Sleep

\* every await of the task returns: the event loop resumes the one task as
\* long as it has a step to take
SpecLive == Init /\ [][NextLive]_vars /\ WF_vars(NextLive)

\* the whole program in a process that can be stopped from outside
NextStartup ==
    \/ Start
    \/ ProbeRpc
    \/ Announce
    \/ Interrupt
    \/ Finally
    \/ FetchReturns(OneCandidate)
    \/ ProcessCandidate(FewTx, FewMeta)
    \/ EndOfTry
    \/ FetchRaises(Unclassified)
    \/ Recover
    \/ CheckErrors
    \/ Sleep

SpecStartup == Init /\ [][NextStartup]_vars

\* ------------------------------------------------- methods called directly

\* rotations one run of SpecRotate makes
MaxRotations == 10

\* the object after __init__ and setup(), before any method under test ran
InitCalled ==
    /\ pc = "called"
    /\ rpc_index = 0
    /\ solana_client = AsyncClient(RPC_URLS[1])
    /\ processed_signatures = {}
    /\ token_cache = [k \in {} |-> Fallback]
    /\ session = "open"
    /\ error_count = 0
    /\ signatures = << >>
    /\ idx = 1
    /\ error_msg = NoMessage
    /\ insertion_order = << >>
    /\ ledger_at_fetch = {}
    /\ classified = << >>
    /\ notified = << >>
    /\ sent = << >>
    /\ rotations = 0
    /\ waits = << >>
    /\ escalated = FALSE
    /\ failed = FALSE
    /\ streak = 0
    /\ last_call = NoCall
    /\ fate = NoFate
    /\ startup = NoStartup
    /\ slept = << >>

\* check_transaction(signature) against every answer of get_transaction
CallCheckTransaction ==
    /\ pc = "called"
    /\ \E sig \in Sigs, tx \in TxResponses :
         last_call' = [op |-> "check_transaction", signature |-> sig, tx |-> tx,
                       result |-> check_transaction(sig, tx)]
    /\ pc' = "returned"
    /\ UNCHANGED << insertion_order, streak, fate, startup, slept >>
    /\ UNCHANGED program_vars
    /\ UNCHANGED cycle_history

SpecClassifier == InitCalled /\ [][CallCheckTransaction]_vars

\* get_token_info(mint_address) against every answer of the metadata service
CallGetTokenInfo ==
    /\ pc = "called"
    /\ \E mint \in AddrUniverse, resp \in MetaResponses :
         LET r == get_token_info(token_cache, mint, resp) IN
           /\ token_cache' = r.cache
           /\ last_call' = [op |-> "get_token_info", mint |-> mint, resp |-> resp,
                            info |-> r.info, lookup |-> r.lookup,
                            cache_before |-> token_cache]
    /\ UNCHANGED << pc, rpc_index, solana_client, processed_signatures, session,
                    error_count, insertion_order, streak, fate, startup, slept >>
    /\ UNCHANGED cycle_history

SpecCache == InitCalled /\ [][CallGetTokenInfo]_vars

\* the program can be at any endpoint when rotate_rpc is called
InitRotate ==
    /\ pc = "called"
    /\ \E i \in 0..(Len(RPC_URLS) - 1) :
         /\ rpc_index = i
         /\ solana_client = AsyncClient(RPC_URLS[i + 1])
         /\ last_call = [op |-> "rotate_rpc", first |-> i, calls |-> 0,
                         close_ok |-> TRUE]
    /\ processed_signatures = {}
    /\ token_cache = [k \in {} |-> Fallback]
    /\ session = "open"
    /\ error_count = 0
    /\ signatures = << >>
    /\ idx = 1
    /\ error_msg = NoMessage
    /\ insertion_order = << >>
    /\ ledger_at_fetch = {}
    /\ classified = << >>
    /\ notified = << >>
    /\ sent = << >>
    /\ rotations = 0
    /\ waits = << >>
    /\ escalated = FALSE
    /\ failed = FALSE
    /\ streak = 0
    /\ fate = NoFate
    /\ startup = NoStartup
    /\ slept = << >>

\* rotate_rpc() called again and again, the old client closing cleanly or not
CallRotate ==
    /\ pc = "called"
    /\ last_call.calls < MaxRotations
    /\ \E close_ok \in BOOLEAN :
         /\ Rotate(close_ok)
         /\ last_call' = [last_call EXCEPT !.calls = @ + 1, !.close_ok = close_ok]
    /\ UNCHANGED << pc, processed_signatures, token_cache, session, error_count,
                    insertion_order, streak, fate, startup, slept >>
    /\ UNCHANGED cycle_history

SpecRotate == InitRotate /\ [][CallRotate]_vars

\* ------------------------------------------------------------------ claims

Count(s, x) == Cardinality({i \in DOMAIN s : s[i] = x})

\* the classes of a message as the specification words them, first match wins
IsRateLimited(m) == "429" \in m \/ "Too Many Requests" \in m
IsForbidden(m) == ~IsRateLimited(m) /\ ("403" \in m \/ "Forbidden" \in m)
IsUnavailable(m) ==
    /\ ~IsRateLimited(m) /\ ~IsForbidden(m)
    /\ ("503" \in m \/ "Service Unavailable" \in m)
IsConnection(m) ==
    /\ ~IsRateLimited(m) /\ ~IsForbidden(m) /\ ~IsUnavailable(m)
    /\ ("Connection" \in m \/ "Timeout" \in m)
ClassRotates(m) == IsRateLimited(m) \/ IsForbidden(m) \/ IsUnavailable(m)
ClassWaits(m) ==
    IF IsRateLimited(m) THEN << 30 >>
    ELSE IF IsForbidden(m) THEN << 5 >>
    ELSE IF IsUnavailable(m) \/ IsConnection(m) THEN << 10 >>
    ELSE << >>

\* C1: when a failing cycle has been handled, it escalated exactly if it was
\* the 11th (22nd, ...) failing cycle in a row, whatever the class of its
\* error; an escalating cycle sleeps 60 exactly once, as the last wait, rotates
\* once on top of the per-class rotation and leaves the counter at 0; a cycle
\* that does not escalate never sleeps 60 and leaves the counter at the
\* number of failures since the last escalation or success.
C1_Escalation ==
    (pc = "sleep" /\ failed /\ streak < MaxStreak) =>
        /\ escalated <=> (streak % 11 = 0)
        /\ escalated =>
              /\ error_count = 0
              /\ Count(waits, 60) = 1
              /\ waits[Len(waits)] = 60
              /\ rotations = (IF ClassRotates(error_msg) THEN 2 ELSE 1)
        /\ ~escalated =>
              /\ error_count = streak % 11
              /\ Count(waits, 60) = 0

\* C1 witness: the 11th failure in a row, of class "other", escalated
C1_Witness ==
    /\ pc = "sleep" /\ streak = 11 /\ escalated
    /\ error_msg = {} /\ error_count = 0 /\ waits = << 60 >>

\* C2 as claimed: the escalating cycle's only error-driven wait is the 60
C2_Original ==
    (pc = "sleep" /\ escalated) => waits = << 60 >>

\* C2 amended: the escalating cycle first runs the per-class recovery of its
\* error and then the escalation: its waits are the per-class wait (30, 5, 10;
\* none for "other") followed by 60, and a rotating class rotates twice.
C2_Amended ==
    (pc = "sleep" /\ escalated) =>
        /\ waits = ClassWaits(error_msg) \o << 60 >>
        /\ rotations = (IF ClassRotates(error_msg) THEN 2 ELSE 1)

\* C2 witness: a rate-limited 11th failure waited 30 and then 60
C2_Witness ==
    /\ pc = "sleep" /\ escalated /\ error_msg = {"429"}
    /\ waits = << 30, 60 >> /\ rotations = 2

\* C8: entering the except block adds exactly 1 to the counter and does
\* nothing else; the branch taken next is the first matching class in the
\* order rate-limited, forbidden, unavailable, connection/timeout, other, it
\* rotates the endpoint once exactly for the first three, and waits 30, 5,
\* 10, 10 or not at all.
C8_Recovery ==
    [][/\ (pc = "fetch" /\ pc' = "recover") =>
             /\ error_count' = error_count + 1
             /\ rpc_index' = rpc_index
             /\ rotations' = 0 /\ waits' = << >>
       /\ (pc = "recover" /\ pc' = "check_errors") =>
             /\ error_count' = error_count
             /\ rpc_index' =
                   IF ClassRotates(error_msg)
                   THEN (rpc_index + 1) % Len(RPC_URLS) ELSE rpc_index
             /\ rotations' = (IF ClassRotates(error_msg) THEN 1 ELSE 0)
             /\ waits' = ClassWaits(error_msg)]_vars

\* C8 witness: a message with a forbidden and a rate-limit marker took the
\* rate-limit branch
C8_Witness ==
    /\ pc = "check_errors" /\ error_msg = {"403", "Too Many Requests"}
    /\ waits = << 30 >> /\ rotations = 1

\* C3 as claimed: the ledger never holds more than the cap (10,000)
C3_Original == Cardinality(processed_signatures) <= LedgerCap

\* C3 amended: the ledger holds at most the cap once a cycle's clean-up has
\* run (at every point outside the for loop), and inside the for loop at most
\* the cap plus the fetch limit (10,000 + 5), the clean-up running once per
\* cycle after the loop and not after each add.
C3_Amended ==
    /\ Cardinality(processed_signatures) <= LedgerCap + FetchLimit
    /\ pc # "loop" => Cardinality(processed_signatures) <= LedgerCap

\* C3 witness: inside the loop the ledger holds cap + limit identifiers
C3_Witness ==
    /\ pc = "loop"
    /\ Cardinality(processed_signatures) = LedgerCap + FetchLimit

\* the step that evicts: the try block ends with the ledger above its cap
Evicts ==
    /\ pc = "loop" /\ pc' = "sleep"
    /\ Cardinality(processed_signatures) > LedgerCap

\* C4: an eviction leaves exactly the keep-size (5,000) most recently added
\* identifiers
C4_EvictsOldest ==
    [][Evicts =>
          /\ Cardinality(processed_signatures') = LedgerKeep
          /\ processed_signatures' = Range(LastN(insertion_order, LedgerKeep))]_vars

\* the candidates of the cycle the loop has gone through, and those of them
\* that were not in the ledger when the fetch returned
Done == SubSeq(signatures, 1, idx - 1)
NewOnes == SelectSeq(Done, LAMBDA sig : sig \notin ledger_at_fetch)
Results(calls) ==
    SelectSeq(calls, LAMBDA c : c.result # {})

\* C5: in a cycle whose fetch succeeded, the identifiers classified so far are
\* exactly the candidates gone through that were not in the ledger, each
\* once and in order; all of them are in the ledger while the loop runs; and
\* the notifications dispatched are exactly the results of the
\* classifications that produced one, each once and in order.
C5_Pipeline ==
    (pc \in {"loop", "sleep"} /\ ~failed) =>
        /\ Len(classified) = Len(NewOnes)
        /\ \A i \in DOMAIN classified : classified[i].signature = NewOnes[i]
        /\ pc = "loop" => Range(Done) \subseteq processed_signatures
        /\ Len(notified) = Len(Results(classified))
        /\ \A i \in DOMAIN notified :
              /\ {notified[i]} = Results(classified)[i].result
              /\ notified[i].signature = Results(classified)[i].signature
        /\ Range(sent) \subseteq {notified[i].signature : i \in DOMAIN notified}

\* C5 witness: candidates [1, 2] with 1 already in the ledger and 2
\* classifying as a burn of TokenX: one notification, 2 in the ledger
C5_Witness ==
    /\ pc = "loop" /\ signatures = << 1, 2 >> /\ idx = 3
    /\ ledger_at_fetch = {1}
    /\ Len(classified) = 1 /\ classified[1].signature = 2
    /\ Len(notified) = 1 /\ notified[1].token_address = "TokenX"
    /\ sent = << 2 >>
    /\ 2 \in processed_signatures

\* C6: check_transaction returns a burn record exactly when the message's
\* account keys hold a burn address and the program or the authority address;
\* it returns nothing for an exception, a missing value, a missing
\* transaction body and a message without keys.
C6_Classify ==
    last_call.op = "check_transaction" =>
        LET tx == last_call.tx
            participants ==
                IF tx.kind \in {"account_keys", "static_account_keys"}
                THEN Range(tx.keys) ELSE {}
        IN /\ Cardinality(last_call.result) <= 1
           /\ (last_call.result # {}) <=>
                 /\ participants \cap Range(BURN_ADDRESSES) # {}
                 /\ participants \cap {RAYDIUM_AMM_PROGRAM, RAYDIUM_AUTHORITY} # {}
           /\ tx.kind \in {"raise", "none", "no_transaction", "neither"} =>
                 last_call.result = {}

\* C6 witness: a versioned message with a burn address and the authority, but
\* not the program address, is classified as a burn
C6_Witness ==
    /\ last_call.op = "check_transaction"
    /\ last_call.tx.kind = "static_account_keys"
    /\ Contains(last_call.tx.keys, RAYDIUM_AUTHORITY)
    /\ ~Contains(last_call.tx.keys, RAYDIUM_AMM_PROGRAM)
    /\ last_call.result # {}

\* C7: a call for a cached key returns the cached value without a lookup; a
\* call for any other key makes the lookup; a failed lookup returns the
\* fallback and stores nothing; a successful one stores what it returns; and
\* no call changes or removes an entry that was stored before it.
C7_Cache ==
    last_call.op = "get_token_info" =>
        LET before == last_call.cache_before
            hit == last_call.mint \in DOMAIN before
            ok == last_call.resp.kind = "status200"
        IN /\ last_call.lookup <=> ~hit
           /\ hit => /\ last_call.info = before[last_call.mint]
                     /\ token_cache = before
           /\ (~hit /\ ~ok) => /\ last_call.info = Fallback
                               /\ token_cache = before
           /\ (~hit /\ ok) =>
                 /\ DOMAIN token_cache = DOMAIN before \cup {last_call.mint}
                 /\ token_cache[last_call.mint] = last_call.info
                 /\ \A f \in DOMAIN last_call.resp.data :
                       last_call.info[f] = last_call.resp.data[f]
           /\ \A k \in DOMAIN before :
                 k \in DOMAIN token_cache /\ token_cache[k] = before[k]

\* C7 witness: the key was stored by an earlier success; a call during an
\* outage of the service still returns the stored value, without a lookup
C7_Witness ==
    /\ last_call.op = "get_token_info"
    /\ last_call.mint \in DOMAIN last_call.cache_before
    /\ last_call.resp.kind = "raise"
    /\ last_call.info.symbol = "TKX"
    /\ ~last_call.lookup

\* C9: after k calls of rotate_rpc from endpoint i the index is (i + k) mod N
\* and the client is the one of that endpoint, whether or not closing the old
\* clients succeeded; so N calls lead back to endpoint i; and the next call is
\* always possible.
C9_RoundRobin ==
    last_call.op = "rotate_rpc" =>
        /\ rpc_index = (last_call.first + last_call.calls) % Len(RPC_URLS)
        /\ solana_client.url = RPC_URLS[rpc_index + 1]
        /\ last_call.calls = Len(RPC_URLS) => rpc_index = last_call.first
        /\ last_call.calls < MaxRotations => ENABLED CallRotate

\* C9 witness: N rotations from endpoint 3, the last close failing, end at 3
C9_Witness ==
    /\ last_call.op = "rotate_rpc"
    /\ last_call.first = 3 /\ last_call.calls = Len(RPC_URLS)
    /\ ~last_call.close_ok
    /\ rpc_index = 3

\* a check_transaction call of the cycle swallowed an exception
Swallowed == \E i \in DOMAIN classified : classified[i].raised

\* C10: a cycle in which check_transaction swallowed an exception is not a
\* failing cycle: the call counts as "no result", the except block is never
\* entered (no rotation, no wait), every step of the loop leaves the counter
\* and the endpoint alone and moves on to the next candidate, and the cycle
\* ends with all its candidates gone through and the counter at 0.
C10_Absorbed ==
    /\ [](Swallowed =>
            /\ \A i \in DOMAIN classified :
                  classified[i].raised => classified[i].result = {}
            /\ pc \in {"loop", "sleep"}
            /\ ~failed /\ rotations = 0 /\ waits = << >> /\ ~escalated
            /\ pc = "sleep" =>
                  /\ error_count = 0
                  /\ idx = Len(signatures) + 1
                  /\ Len(classified) = Len(NewOnes))
    /\ [][(pc = "loop" /\ pc' = "loop") =>
             /\ error_count' = error_count
             /\ rpc_index' = rpc_index
             /\ idx' = idx + 1]_vars

\* C10 witness: after earlier failures, the first candidate's classification
\* raised, the second was classified and notified, and the cycle succeeded
C10_Witness ==
    /\ pc = "sleep" /\ ~failed /\ error_count = 0
    /\ Len(classified) = 2
    /\ classified[1].raised /\ classified[2].result # {}
    /\ Len(notified) = 1
    /\ rpc_index = 2

\* the identifier of the last entry of a history
LastSig(history) == history[Len(history)].signature

\* a watched identifier has not been taken up since it was last outside the
\* ledger
Fresh(sig) == sig \in DOMAIN fate => fate[sig] \in {"never", "evicted"}

\* C11: a step of the loop that calls send_notification makes one send
\* attempt, for an identifier that was not in the ledger before the step and
\* has had no attempt since it was last outside the ledger; whether the
\* attempt fails or not, the step leaves the counter and the endpoint alone,
\* does not enter the except block and moves on to the next candidate.  An
\* identifier whose attempt failed (or succeeded) stays in the ledger until it
\* is evicted, a cycle attempts at most one send per identifier, and a
\* candidate whose alert failed is passed over without a send.
C11_AtMostOnce ==
    /\ [][Len(notified') > Len(notified) =>
             /\ Len(notified') = Len(notified) + 1
             /\ LastSig(notified') \notin processed_signatures
             /\ LastSig(notified') \in processed_signatures'
             /\ Fresh(LastSig(notified'))
             /\ error_count' = error_count
             /\ rpc_index' = rpc_index /\ solana_client' = solana_client
             /\ ~failed' /\ pc' = "loop" /\ idx' = idx + 1]_vars
    /\ [](\A s \in DOMAIN fate :
             fate[s] \in {"alert_failed", "alerted"} => s \in processed_signatures)
    /\ [](\A i, j \in DOMAIN notified :
             notified[i].signature = notified[j].signature => i = j)
    /\ [][(/\ pc = "loop" /\ idx <= Len(signatures)
            /\ signatures[idx] \in DOMAIN fate
            /\ fate[signatures[idx]] = "alert_failed") =>
               /\ notified' = notified /\ sent' = sent /\ fate' = fate
               /\ idx' = idx + 1]_vars

\* C11 witness: after two failing cycles, the source returned identifier 1
\* again, whose alert had failed in an earlier cycle; the loop went past it
\* without a send, the send for the new identifier 2 failed as well, and the
\* counter is still at 2
C11_Witness ==
    /\ pc = "loop" /\ signatures = << 1, 2 >> /\ idx = 3
    /\ ledger_at_fetch = {1} /\ fate[1] = "alert_failed"
    /\ Len(notified) = 1 /\ notified[1].signature = 2 /\ sent = << >>
    /\ error_count = 2

\* C12: the step that ends a cycle without an exception sets the counter to
\* 0; the counter never exceeds the number of failing cycles in a row since
\* the last successful cycle; the first failure after a successful cycle
\* counts as 1; and a cycle escalates only when at least 11 cycles in a row
\* have failed since the last successful one.
C12_ResetOnSuccess ==
    /\ [][(pc = "loop" /\ pc' = "sleep") => (error_count' = 0 /\ ~failed')]_vars
    /\ []((pc = "sleep" /\ ~failed) => error_count = 0)
    /\ [](streak < MaxStreak => error_count <= streak)
    /\ []((escalated /\ streak < MaxStreak) => streak >= 11)
    /\ [][(pc = "fetch" /\ pc' = "recover" /\ streak = 0) => error_count' = 1]_vars

\* C12 witness: the endpoint is at position 4, so earlier cycles failed; the
\* cycle before this one succeeded; this cycle failed with a message of no
\* class and the counter shows 1
C12_Witness ==
    /\ pc = "sleep" /\ failed /\ error_msg = {}
    /\ streak = 1 /\ error_count = 1 /\ rpc_index = 4

\* C13: from every point of a cycle (in the for loop, in the except block
\* before or after its escalation, at the base sleep) the loop reaches the
\* fetch of the next cycle, and every fetch is answered or raises: the loop
\* never stops.
C13_NoTerminalState ==
    /\ [](pc \in {"loop", "recover", "check_errors", "sleep"} => <>(pc = "fetch"))
    /\ [](pc = "fetch" => <>(pc \in {"loop", "recover"}))

\* C13 witness: the loop is at a fetch again after twelve failing cycles in
\* a row, the 11th of which escalated
C13_Witness ==
    /\ pc = "fetch" /\ streak = 12 /\ error_count = 1
    /\ slept = << 30 >>

\* C14: every step from the end of a cycle's handling leads to the next fetch
\* and sleeps the base interval once, whether the cycle succeeded, failed (its
\* per-class wait done before) or escalated (its 60 s wait done before); every
\* handled cycle reaches that point; the loop's first fetch apart, a fetch is
\* preceded by exactly one base sleep; and no base sleep happens elsewhere.
C14_BaseSleep ==
    /\ [][pc = "sleep" => (pc' = "fetch" /\ slept' = << CHECK_INTERVAL >>)]_vars
    /\ [][(pc # "fetch" /\ pc' = "fetch") => pc \in {"sleep", "announce"}]_vars
    /\ [][((pc = "loop" /\ idx > Len(signatures)) \/ pc = "check_errors") =>
              pc' = "sleep"]_vars
    /\ [](pc = "sleep" =>
             waits = (IF failed THEN ClassWaits(error_msg) ELSE << >>)
                     \o (IF escalated THEN << 60 >> ELSE << >>))
    /\ [](pc = "fetch" =>
             slept = (IF startup.announce # "-" THEN << >> ELSE << 30 >>))
    /\ [](pc # "fetch" => slept = << >>)

\* C14 witness: the 11th failure in a row escalated and waited 60; the loop
\* then slept the base interval once and is at its next fetch
C14_Witness ==
    /\ pc = "fetch" /\ slept = << 30 >>
    /\ streak = 11 /\ error_count = 0

\* C15: start() opens the session and probes get_me: if that fails start()
\* goes to its finally and monitor_loop is never entered; if it succeeds, and
\* the process is not interrupted, the data-source probe leads to the
\* announcement whether get_slot succeeded, failed once or failed twice, and
\* the announcement leads to the loop's first fetch whether it was sent or
\* not.  start() leaves its try block only by the fatal get_me failure or by
\* an interrupt, always through the finally, which closes the session and the
\* endpoint client before start() returns.
C15_Startup ==
    /\ [][pc = "start" =>
             /\ session' = "open"
             /\ startup'.me \in {"ok", "failed"}
             /\ pc' = (IF startup'.me = "ok" THEN "probe_rpc" ELSE "finally")]_vars
    /\ [][(pc = "probe_rpc" /\ startup'.exit # "interrupt") =>
             /\ pc' = "announce"
             /\ \/ startup'.slot = "ok" /\ startup'.retry = "-"
                \/ startup'.slot = "failed" /\ startup'.retry \in {"ok", "failed"}]_vars
    /\ [][(pc = "announce" /\ startup'.exit # "interrupt") =>
             /\ pc' = "fetch"
             /\ startup'.announce \in {"ok", "failed"}]_vars
    /\ [](startup.me = "failed" => pc \in {"finally", "stopped"})
    /\ [][(pc # "finally" /\ pc' = "finally") =>
             startup'.exit \in {"fatal", "interrupt"}]_vars
    /\ [][(pc # "stopped" /\ pc' = "stopped") => pc = "finally"]_vars
    /\ [][pc = "finally" =>
             /\ pc' = "stopped"
             /\ session' = "closed" /\ solana_client'.closed]_vars
    /\ [](pc = "stopped" => (session = "closed" /\ solana_client.closed))
    /\ [](pc \notin {"start", "stopped"} => (session = "open" /\ ~solana_client.closed))

\* C15 witness: get_me succeeded, get_slot failed on both endpoints and the
\* announcement could not be sent; the loop was entered all the same and took
\* up a candidate; then the process was interrupted and start() released the
\* session and the client
C15_Witness ==
    /\ pc = "stopped"
    /\ startup = [me |-> "ok", slot |-> "failed", retry |-> "failed",
                  announce |-> "failed", exit |-> "interrupt"]
    /\ signatures = << 1 >> /\ idx = 2 /\ processed_signatures = {1}
    /\ rpc_index = 1
    /\ session = "closed" /\ solana_client.closed

\* C16: a burn record's token address is the first account key of the
\* transaction, hence one of its account keys and never "unknown"; its
\* signature is the one that was classified; its burn percentage is
\* MIN_BURN_PERCENT whatever the transaction holds.
C16_Subject ==
    last_call.op = "check_transaction" =>
        \A r \in last_call.result :
            /\ last_call.tx.keys # << >>
            /\ r.token_address = last_call.tx.keys[1]
            /\ r.token_address \in Range(last_call.tx.keys)
            /\ r.token_address # "unknown"
            /\ r.signature = last_call.signature
            /\ r.burn_percent = 90

\* C16 witness: the first account key is the burn address itself, the token
\* comes after it: the record names the burn address as the token
C16_Witness ==
    /\ last_call.op = "check_transaction"
    /\ last_call.tx.keys = << BURN_ADDRESSES[2], "TokenX", RAYDIUM_AMM_PROGRAM >>
    /\ last_call.signature = 3
    /\ last_call.result =
          {[signature |-> 3, token_address |-> BURN_ADDRESSES[2], burn_percent |-> 90]}

\* C17: a step of the loop that calls check_transaction does so for an
\* identifier that was not in the ledger before the step, is in it after, and
\* has not been taken up since it was last outside the ledger; an identifier
\* whose classification was missed (exception, transaction not available)
\* stays in the ledger until it is evicted and has no notification; and a
\* candidate that was missed is passed over: no classification, no
\* notification.
C17_MissedForGood ==
    /\ [][Len(classified') > Len(classified) =>
             /\ Len(classified') = Len(classified) + 1
             /\ LastSig(classified') \notin processed_signatures
             /\ LastSig(classified') \in processed_signatures'
             /\ Fresh(LastSig(classified'))]_vars
    /\ [](\A s \in DOMAIN fate :
             fate[s] = "missed" =>
                /\ s \in processed_signatures
                /\ \A i \in DOMAIN notified : notified[i].signature # s)
    /\ [][(/\ pc = "loop" /\ idx <= Len(signatures)
            /\ signatures[idx] \in DOMAIN fate
            /\ fate[signatures[idx]] = "missed") =>
               /\ classified' = classified /\ notified' = notified
               /\ sent' = sent /\ fate' = fate
               /\ idx' = idx + 1]_vars

\* C17 witness: identifier 1 was missed in an earlier cycle; the source
\* returned it again, first of two, and only the other one was classified
C17_Witness ==
    /\ pc = "loop" /\ signatures = << 1, 3 >> /\ idx = 3
    /\ ledger_at_fetch = {1} /\ fate[1] = "missed"
    /\ Len(classified) = 1 /\ classified[1].signature = 3
    /\ notified = << >>

\* C18: error_count is always between 0 and 11, and between 0 and 10 when the
\* base sleep begins (and until the next exception is counted)
C18_CounterRange ==
    /\ error_count \in 0..11
    /\ pc \in {"sleep", "fetch", "loop"} => error_count \in 0..10

\* C18 witness: the 11th failure in a row has been counted, the escalation
\* not yet run
C18_Witness ==
    /\ pc = "check_errors" /\ error_count = 11 /\ streak = 11

\* C19: rpc_index changes only by a rotation, one position at a time, in the
\* startup probe or in the except block of a failing cycle; a cycle whose
\* fetch succeeded makes no rotation; a failing cycle makes at most 2; and no
\* step of a failing cycle changes the ledger or the metadata cache.
C19_Frame ==
    /\ [][rpc_index' # rpc_index =>
             /\ rpc_index' = (rpc_index + 1) % Len(RPC_URLS)
             /\ \/ pc = "probe_rpc"
                \/ /\ pc \in {"recover", "check_errors"} /\ failed
                   /\ rotations' = rotations + 1]_vars
    /\ [][(pc \in {"recover", "check_errors"}) =>
             /\ rotations' \in {rotations, rotations + 1}
             /\ (rotations' = rotations) <=> (rpc_index' = rpc_index)]_vars
    /\ [][(pc \in {"fetch", "loop", "sleep"} /\ ~failed /\ ~failed') =>
             (rpc_index' = rpc_index /\ solana_client' = solana_client)]_vars
    /\ [](~failed => rotations = 0)
    /\ [](rotations <= 2)
    /\ [][(failed \/ failed') =>
             /\ processed_signatures' = processed_signatures
             /\ token_cache' = token_cache]_vars

\* C19 witness: with identifiers in the ledger and an entry in the cache, the
\* 11th failure in a row was rate-limited and rotated twice
C19_Witness ==
    /\ pc = "sleep" /\ escalated /\ rotations = 2 /\ error_msg = {"429"}
    /\ processed_signatures = {1, 2}
    /\ DOMAIN token_cache = {"TokenX"}

\* C20: rpc_index is a position of RPC_URLS and the client is the one made for
\* the URL at that position; it is open until cleanup() closes it
C20_IndexAndClient ==
    /\ rpc_index \in 0..(Len(RPC_URLS) - 1)
    /\ solana_client.url = RPC_URLS[rpc_index + 1]
    /\ solana_client.closed <=> pc = "stopped"

\* C20 witness: five rate-limited cycles in a row have rotated through all
\* endpoints, back to the first
C20_Witness ==
    /\ pc = "check_errors" /\ streak = 5 /\ rotations = 1
    /\ error_msg = {"429"}
    /\ rpc_index = 0 /\ solana_client.url = RPC_URLS[1]

====
